---- MODULE Spec2Model ----
\* A model of stoplight_migrator: the table-of-contents normalizer (toc.py),
\* the navigation synthesizer (migrator.py) and the restricted YAML engine
\* (simple_yaml.py).
\*
\* Text is modelled character by character: a Python str is a sequence of
\* one-character strings, so that slugify, the scalar encoder/decoder and the
\* line parser are computed the way the code computes them.
EXTENDS Integers, Sequences, FiniteSets, TLC

VARIABLES
    pc,             \* position of the program (per specification)
    config,         \* MigrationConfig
    raw,            \* the raw table-of-contents records held by the client
    nodes,          \* the result of client.load_tree()
    navigation,     \* the local `navigation` of migrate()
    slug_registry,  \* StoplightMigrator.slug_registry
    fs,             \* the filesystem: directories, page files, docs.yml
    printed,        \* what print() has emitted
    docs_config,    \* the local `docs_config` of migrate()
    log,            \* the calls and effects of the run, in order
    cursor,         \* the position of migrate()'s loop over the nodes
    yaml            \* the values of a load / dump / load sequence

vars == <<pc, config, raw, nodes, navigation, slug_registry, fs, printed,
          docs_config, log, cursor, yaml>>

-----------------------------------------------------------------------------
\* Characters and Python str methods

LowerChars == <<"a","b","c","d","e","f","g","h","i","j","k","l","m",
                "n","o","p","q","r","s","t","u","v","w","x","y","z">>
UpperChars == <<"A","B","C","D","E","F","G","H","I","J","K","L","M",
                "N","O","P","Q","R","S","T","U","V","W","X","Y","Z">>
DigitChars == <<"0","1","2","3","4","5","6","7","8","9">>

Range(f) == {f[i] : i \in DOMAIN f}

IsDigit(c) == c \in Range(DigitChars)

\* str.lower() on one character
LowerChar(c) ==
    IF c \in Range(UpperChars)
    THEN LowerChars[CHOOSE i \in DOMAIN UpperChars : UpperChars[i] = c]
    ELSE c

\* str.lower()
Lower(s) == [i \in DOMAIN s |-> LowerChar(s[i])]

RECURSIVE LStripSet(_, _)
LStripSet(s, cs) ==
    IF s # <<>> /\ Head(s) \in cs THEN LStripSet(Tail(s), cs) ELSE s

RECURSIVE RStripSet(_, _)
RStripSet(s, cs) ==
    IF s # <<>> /\ s[Len(s)] \in cs
    THEN RStripSet(SubSeq(s, 1, Len(s) - 1), cs)
    ELSE s

\* the characters str.strip() removes (those of them the model's texts use)
SpaceChars == {" ", "\n", "\t"}

\* str.lstrip(), str.rstrip(), str.strip()
LStrip(s) == LStripSet(s, SpaceChars)
RStrip(s) == RStripSet(s, SpaceChars)
Strip(s) == LStrip(RStrip(s))

\* `ch in text`
HasChar(s, c) == \E i \in DOMAIN s : s[i] = c

\* str.startswith / str.endswith
StartsWith(s, p) == Len(s) >= Len(p) /\ SubSeq(s, 1, Len(p)) = p
EndsWith(s, p) == Len(s) >= Len(p) /\ SubSeq(s, Len(s) - Len(p) + 1, Len(s)) = p

\* index of the first occurrence of c in s (0 when there is none)
RECURSIVE FindFrom(_, _, _)
FindFrom(s, c, i) ==
    IF i > Len(s) THEN 0
    ELSE IF s[i] = c THEN i
    ELSE FindFrom(s, c, i + 1)

Find(s, c) == FindFrom(s, c, 1)

\* str(n) for an integer n
RECURSIVE NatToStr(_)
NatToStr(n) ==
    IF n < 10 THEN <<DigitChars[n + 1]>>
    ELSE NatToStr(n \div 10) \o <<DigitChars[(n % 10) + 1]>>

IntToStr(n) == IF n < 0 THEN <<"-">> \o NatToStr(0 - n) ELSE NatToStr(n)

\* "sep".join(parts)
RECURSIVE Join(_, _)
Join(parts, sep) ==
    IF parts = <<>> THEN <<>>
    ELSE IF Len(parts) = 1 THEN parts[1]
    ELSE parts[1] \o sep \o Join(Tail(parts), sep)

\* concatenation of a sequence of sequences
RECURSIVE Flatten(_)
Flatten(ss) == IF ss = <<>> THEN <<>> ELSE Head(ss) \o Flatten(Tail(ss))

-----------------------------------------------------------------------------
\* toc.py: slugify

IsSlugChar(c) == c \in Range(LowerChars) \/ IsDigit(c)

\* _slug_pattern.sub("-", lowered): every maximal run of characters outside
\* [a-z0-9] becomes one "-"
RECURSIVE SlugPatternSub(_, _)
SlugPatternSub(s, inRun) ==
    IF s = <<>> THEN <<>>
    ELSE IF IsSlugChar(Head(s)) THEN <<Head(s)>> \o SlugPatternSub(Tail(s), FALSE)
    ELSE IF inRun THEN SlugPatternSub(Tail(s), TRUE)
    ELSE <<"-">> \o SlugPatternSub(Tail(s), TRUE)

PagePlaceholder == <<"p","a","g","e">>

\* `slug or "page"`
OrPlaceholder(slug) == IF slug # <<>> THEN slug ELSE PagePlaceholder

slugify(value) ==
    OrPlaceholder(LStripSet(RStripSet(SlugPatternSub(Lower(Strip(value)), FALSE),
                                      {"-"}), {"-"}))

-----------------------------------------------------------------------------
\* migrator.py: StoplightMigrator._ensure_unique_slug
\*
\* The registry is a function from the slugs it holds to their counters.

\* f"{base}-{counter}"
Numbered(base, counter) == base \o <<"-">> \o IntToStr(counter)

\* a variant that takes the recorded counter + 1 without probing the registry
NoProbeCounter(reg, base, counter) == counter

\* the while loop of lines 146-147
RECURSIVE ProbeCounter(_, _, _)
ProbeCounter(reg, base, counter) ==
    IF Numbered(base, counter) \in DOMAIN reg
    THEN ProbeCounter(reg, base, counter + 1)
    ELSE counter

\* a variant that does not record the slug it returns
MintedUnrecorded(reg, base, counter) ==
    [slug |-> Numbered(base, counter), reg |-> [reg EXCEPT ![base] = counter]]

\* lines 148-151: the slug minted for a base already in the registry
Minted(reg, base, counter) ==
    [slug |-> Numbered(base, counter),
     reg |-> (Numbered(base, counter) :> 1) @@ [reg EXCEPT ![base] = counter]]

\* lines 141-151, for the normalized slug
Allocate(reg, slug) ==
    IF slug \notin DOMAIN reg
    THEN [slug |-> slug, reg |-> (slug :> 1) @@ reg]
    ELSE Minted(reg, slug, ProbeCounter(reg, slug, reg[slug] + 1))

\* the returned slug and the registry after _ensure_unique_slug(requested)
EnsureUniqueSlug(reg, requested) == Allocate(reg, slugify(requested))

EmptyRegistry == <<>>

-----------------------------------------------------------------------------
\* simple_yaml.py: the Structured Document values
\*
\* Every value is a record [t, s, kids]: an OrderedDict is "map" with an
\* "ent" per key (s the key, kids the one value), a list is "list", a str is
\* "str" with its characters, an int or a float is "int" or "float" with its
\* str(), True/False is "bool", None is "null".

VStr(s) == [t |-> "str", s |-> s, kids |-> <<>>]
VNull == [t |-> "null", s |-> <<>>, kids |-> <<>>]
VBool(b) == [t |-> "bool",
             s |-> IF b THEN <<"t","r","u","e">> ELSE <<"f","a","l","s","e">>,
             kids |-> <<>>]
VInt(n) == [t |-> "int", s |-> IntToStr(n), kids |-> <<>>]
VFloat(repr) == [t |-> "float", s |-> repr, kids |-> <<>>]
VEnt(k, v) == [t |-> "ent", s |-> k, kids |-> <<v>>]
VMap(ents) == [t |-> "map", s |-> <<>>, kids |-> ents]
VList(items) == [t |-> "list", s |-> <<>>, kids |-> items]

IsMap(v) == v.t = "map"
IsList(v) == v.t = "list"

Keys(m) == [i \in DOMAIN m.kids |-> m.kids[i].s]
HasKey(m, k) == \E i \in DOMAIN m.kids : m.kids[i].s = k
\* m[k] for a key the mapping holds
Get(m, k) == m.kids[CHOOSE i \in DOMAIN m.kids : m.kids[i].s = k].kids[1]

\* a variant that moves an assigned key to the end
SetEntMoveLast(ents, k, v) ==
    Append(SelectSeq(ents, LAMBDA e : e.s # k), VEnt(k, v))

\* OrderedDict.__setitem__ on the entries: a key already there keeps its
\* position, a new key goes last
SetEnt(ents, k, v) ==
    IF \E i \in DOMAIN ents : ents[i].s = k
    THEN [i \in DOMAIN ents |-> IF ents[i].s = k THEN VEnt(k, v) ELSE ents[i]]
    ELSE Append(ents, VEnt(k, v))

MapSet(m, k, v) == VMap(SetEnt(m.kids, k, v))

-----------------------------------------------------------------------------
\* simple_yaml.py: _parse_scalar and _format_scalar

\* int(value): an optional sign and digits, "_" allowed between two digits
RECURSIVE DigitsOk(_, _)
DigitsOk(s, prevDigit) ==
    IF s = <<>> THEN prevDigit
    ELSE IF IsDigit(Head(s)) THEN DigitsOk(Tail(s), TRUE)
    ELSE IF Head(s) = "_" THEN prevDigit /\ Tail(s) # <<>> /\ IsDigit(s[2])
                                          /\ DigitsOk(Tail(s), FALSE)
    ELSE FALSE

Unsigned(s) == IF s # <<>> /\ Head(s) \in {"+", "-"} THEN Tail(s) ELSE s
IsNegative(s) == s # <<>> /\ Head(s) = "-"

IsIntLiteral(s) == DigitsOk(Unsigned(s), FALSE)

DigitValue(c) == (CHOOSE i \in DOMAIN DigitChars : DigitChars[i] = c) - 1

RECURSIVE NatValue(_, _)
NatValue(s, acc) ==
    IF s = <<>> THEN acc
    ELSE IF Head(s) = "_" THEN NatValue(Tail(s), acc)
    ELSE NatValue(Tail(s), 10 * acc + DigitValue(Head(s)))

IntValue(s) ==
    IF IsNegative(s) THEN 0 - NatValue(Unsigned(s), 0) ELSE NatValue(Unsigned(s), 0)

\* float(value) for the literals without exponent: [sign] digits "." digits,
\* one of the two digit groups possibly empty
AllDigits(s) == \A i \in DOMAIN s : IsDigit(s[i])

IsFloatLiteral(s) ==
    LET u == Unsigned(s)
        dot == Find(u, ".")
    IN  /\ dot > 0
        /\ AllDigits(SubSeq(u, 1, dot - 1))
        /\ AllDigits(SubSeq(u, dot + 1, Len(u)))
        /\ Len(u) > 1

\* str(float(value)) for those literals
FloatRepr(s) ==
    LET u == Unsigned(s)
        dot == Find(u, ".")
        whole == LStripSet(SubSeq(u, 1, dot - 1), {"0"})
        frac == RStripSet(SubSeq(u, dot + 1, Len(u)), {"0"})
    IN  (IF IsNegative(s) THEN <<"-">> ELSE <<>>)
        \o (IF whole = <<>> THEN <<"0">> ELSE whole)
        \o <<".">>
        \o (IF frac = <<>> THEN <<"0">> ELSE frac)

IsQuoted(value, q) == StartsWith(value, <<q>>) /\ EndsWith(value, <<q>>)

\* value[1:-1]
Unquote(value) == SubSeq(value, 2, Len(value) - 1)

_parse_scalar(value) ==
    LET lowered == Lower(value) IN
    IF value = <<>> THEN VStr(<<>>)
    ELSE IF lowered = <<"n","u","l","l">> THEN VNull
    ELSE IF lowered = <<"t","r","u","e">> THEN VBool(TRUE)
    ELSE IF lowered = <<"f","a","l","s","e">> THEN VBool(FALSE)
    ELSE IF HasChar(value, ".") /\ IsFloatLiteral(value) THEN VFloat(FloatRepr(value))
    ELSE IF ~HasChar(value, ".") /\ IsIntLiteral(value) THEN VInt(IntValue(value))
    ELSE IF IsQuoted(value, "'") \/ IsQuoted(value, "\"") THEN VStr(Unquote(value))
    ELSE VStr(value)

\* the backquote character (a TLA+ string cannot hold it)
Backquote == "backquote"

\* the characters that make _format_scalar quote a string
QuoteTriggers == {"\n", ":", "#", "{", "}", "[", "]", "\"", "'", "@", Backquote}

\* text.replace("\\", "\\\\").replace("\"", "\\\"")
Escape(text) ==
    Flatten([i \in DOMAIN text |->
        IF text[i] = "\\" THEN <<"\\", "\\">>
        ELSE IF text[i] = "\"" THEN <<"\\", "\"">>
        ELSE <<text[i]>>])

_format_scalar(value) ==
    IF value.t \in {"bool", "int", "float"} THEN value.s
    ELSE IF value.t = "null" THEN <<"n","u","l","l">>
    ELSE LET text == value.s IN
         IF text = <<>> THEN <<"'", "'">>
         ELSE IF (\E i \in DOMAIN text : text[i] \in QuoteTriggers) \/ Strip(text) # text
         THEN <<"\"">> \o Escape(text) \o <<"\"">>
         ELSE text

-----------------------------------------------------------------------------
\* simple_yaml.py: dump

indent_size == 2

Spaces(n) == [i \in 1..n |-> " "]

RECURSIVE _dump_value(_, _)
_dump_value(value, indent) ==
    LET prefix == Spaces(indent)
        nested(item) == item.t \in {"list", "map"}
    IN
    IF IsList(value)
    THEN Flatten([i \in DOMAIN value.kids |->
            LET item == value.kids[i] IN
            IF nested(item)
            THEN <<prefix \o <<"-">>>> \o _dump_value(item, indent + indent_size)
            ELSE <<prefix \o <<"-", " ">> \o _format_scalar(item)>>])
    ELSE IF IsMap(value)
    THEN Flatten([i \in DOMAIN value.kids |->
            LET key == value.kids[i].s
                item == value.kids[i].kids[1]
            IN
            IF nested(item)
            THEN <<prefix \o key \o <<":">>>> \o _dump_value(item, indent + indent_size)
            ELSE <<prefix \o key \o <<":", " ">> \o _format_scalar(item)>>])
    ELSE <<prefix \o _format_scalar(value)>>

dump(value) == RStrip(Join(_dump_value(value, 0), <<"\n">>)) \o <<"\n">>

-----------------------------------------------------------------------------
\* simple_yaml.py: load (class SimpleYaml)
\*
\* `lines` is SimpleYaml.lines, `idx` is SimpleYaml.index (0-based as in the
\* code; lines[idx + 1] is the line at that index). Each parsing method
\* returns the parsed value, the index it leaves and whether it raised
\* YamlError.

\* str.splitlines() for texts whose only line break is "\n"
RECURSIVE SplitLines(_, _)
SplitLines(text, cur) ==
    IF text = <<>> THEN (IF cur = <<>> THEN <<>> ELSE <<cur>>)
    ELSE IF Head(text) = "\n" THEN <<cur>> \o SplitLines(Tail(text), <<>>)
    ELSE SplitLines(Tail(text), Append(cur, Head(text)))

\* SimpleYaml.__init__: a _Line per line
MakeLines(ls) ==
    [i \in DOMAIN ls |->
        [text |-> RStripSet(ls[i], {"\n"}),
         indent |-> Len(ls[i]) - Len(LStripSet(ls[i], {" "}))]]

IsBlankOrComment(line) ==
    Strip(line.text) = <<>> \/ StartsWith(LStrip(line.text), <<"#">>)

\* _peek: the index of the next line that is neither blank nor a comment
RECURSIVE _peek(_, _)
_peek(lines, idx) ==
    IF idx < Len(lines) /\ IsBlankOrComment(lines[idx + 1])
    THEN _peek(lines, idx + 1)
    ELSE idx

\* _skip_blank_lines
_skip_blank_lines(lines, idx) == _peek(lines, idx)

Parsed(val, idx) == [val |-> val, idx |-> idx, err |-> FALSE]
YamlError == [val |-> VNull, idx |-> 0, err |-> TRUE]

BlockMarker == <<"_","_","B","L","O","C","K","_","_">>

\* the block-scalar check of _parse_key_value, lines 155-156
IsBlockScalar(remainder) == remainder = <<"|">> \/ remainder = <<">">>

\* _parse_key_value, for the text before and after the first ":"
KeyValue(key, remainder) ==
    IF remainder = <<>>
    THEN [err |-> FALSE, key |-> key, has_value |-> FALSE, value |-> VNull]
    ELSE IF IsBlockScalar(remainder)
    THEN [err |-> TRUE, key |-> key, has_value |-> FALSE, value |-> VNull]
    ELSE [err |-> FALSE, key |-> key, has_value |-> TRUE,
          value |-> _parse_scalar(remainder)]

\* text.split(":", 1), both halves stripped
BeforeColon(text) == Strip(SubSeq(text, 1, Find(text, ":") - 1))
AfterColon(text) == Strip(SubSeq(text, Find(text, ":") + 1, Len(text)))

\* _parse_key_value: key, has_value, value_or_marker
_parse_key_value(text) ==
    IF ~HasChar(text, ":")
    THEN [err |-> TRUE, key |-> <<>>, has_value |-> FALSE, value |-> VNull]
    ELSE KeyValue(BeforeColon(text), AfterColon(text))

\* whether the entry's value is a nested block (lines 84-87, 139-142)
OpensBlock(kv) == ~kv.has_value \/ kv.value = VStr(BlockMarker)

IsListItemText(text) == text = <<"-">> \/ StartsWith(text, <<"-", " ">>)

\* lines 91-95; collection is "none", "list" or "dict"
BlockResult(collection, items_list, mapping, idx) ==
    IF collection = "list" THEN Parsed(VList(items_list), idx)
    ELSE IF collection = "dict" THEN Parsed(VMap(mapping), idx)
    ELSE Parsed(VMap(<<>>), idx)

RECURSIVE _parse_block(_, _, _)
RECURSIVE ParseBlockLoop(_, _, _, _, _, _)
RECURSIVE BlockStep(_, _, _, _, _, _, _)
RECURSIVE BlockLine(_, _, _, _, _, _, _)
RECURSIVE BlockItem(_, _, _, _, _)
RECURSIVE BlockEntry(_, _, _, _, _, _)
RECURSIVE BlockNested(_, _, _, _, _, _)
RECURSIVE _parse_list_item(_, _, _, _)
RECURSIVE ItemWithKey(_, _, _)
RECURSIVE ItemWithEntry(_, _, _, _, _)
RECURSIVE ItemWithNested(_, _, _, _)
RECURSIVE _collect_additional_mapping_entries(_, _, _, _)
RECURSIVE CollectStep(_, _, _, _)
RECURSIVE CollectEntry(_, _, _, _, _)
RECURSIVE CollectNested(_, _, _, _, _)

\* lines 76-77: the item is appended and the loop goes on
BlockItem(lines, r, expected_indent, items_list, mapping) ==
    IF r.err THEN YamlError
    ELSE ParseBlockLoop(lines, r.idx, expected_indent, "list",
                        Append(items_list, r.val), mapping)

\* lines 85/87 and 90, for the nested block r
BlockNested(lines, key, r, expected_indent, items_list, mapping) ==
    IF r.err THEN YamlError
    ELSE ParseBlockLoop(lines, r.idx, expected_indent, "dict", items_list,
                        SetEnt(mapping, key, r.val))

\* lines 83-90
BlockEntry(lines, index, kv, expected_indent, items_list, mapping) ==
    IF kv.err THEN YamlError
    ELSE IF OpensBlock(kv)
    THEN BlockNested(lines, kv.key,
                     _parse_block(lines, index + 1, expected_indent + indent_size),
                     expected_indent, items_list, mapping)
    ELSE ParseBlockLoop(lines, index + 1, expected_indent, "dict", items_list,
                        SetEnt(mapping, kv.key, kv.value))

\* a variant without the checks of lines 71-72 and 79-80: a block may hold
\* both items and entries
MixedAccepted(lines, index, text, expected_indent, collection, items_list, mapping) ==
    IF IsListItemText(text)
    THEN BlockItem(lines,
                   _parse_list_item(lines, index + 1, LStrip(Tail(text)),
                                    expected_indent),
                   expected_indent, items_list, mapping)
    ELSE BlockEntry(lines, index, _parse_key_value(text), expected_indent,
                    items_list, mapping)

\* lines 70-90, for the stripped text of the line at index
BlockLine(lines, index, text, expected_indent, collection, items_list, mapping) ==
    IF IsListItemText(text)
    THEN IF collection \notin {"none", "list"} THEN YamlError
         ELSE BlockItem(lines,
                        _parse_list_item(lines, index + 1, LStrip(Tail(text)),
                                         expected_indent),
                        expected_indent, items_list, mapping)
    ELSE IF collection \notin {"none", "dict"} THEN YamlError
         ELSE BlockEntry(lines, index, _parse_key_value(text), expected_indent,
                         items_list, mapping)

\* a variant without the check of lines 67-68: a deeper line is taken as a
\* line of the block
DeeperAccepted(lines, saved, index, expected_indent, collection, items_list, mapping) ==
    IF index >= Len(lines)
    THEN BlockResult(collection, items_list, mapping, index)
    ELSE IF lines[index + 1].indent < expected_indent
    THEN BlockResult(collection, items_list, mapping, saved)
    ELSE BlockLine(lines, index, Strip(lines[index + 1].text), expected_indent,
                   collection, items_list, mapping)

\* lines 61-69, for the index _peek gave; `saved` is saved_index
BlockStep(lines, saved, index, expected_indent, collection, items_list, mapping) ==
    IF index >= Len(lines)
    THEN BlockResult(collection, items_list, mapping, index)
    ELSE IF lines[index + 1].indent < expected_indent
    THEN BlockResult(collection, items_list, mapping, saved)
    ELSE IF lines[index + 1].indent > expected_indent THEN YamlError
    ELSE BlockLine(lines, index, Strip(lines[index + 1].text), expected_indent,
                   collection, items_list, mapping)

\* the while loop of _parse_block
ParseBlockLoop(lines, idx, expected_indent, collection, items_list, mapping) ==
    BlockStep(lines, idx, _peek(lines, idx), expected_indent, collection,
              items_list, mapping)

_parse_block(lines, idx, expected_indent) ==
    ParseBlockLoop(lines, idx, expected_indent, "none", <<>>, <<>>)

\* lines 140/142 and 145, for the nested block r
CollectNested(lines, key, r, current, indent) ==
    IF r.err THEN YamlError
    ELSE _collect_additional_mapping_entries(lines, r.idx,
                                             SetEnt(current, key, r.val), indent)

\* lines 138-145
CollectEntry(lines, index, kv, current, indent) ==
    IF kv.err THEN YamlError
    ELSE IF OpensBlock(kv)
    THEN CollectNested(lines, kv.key,
                       _parse_block(lines, index + 1, indent + indent_size),
                       current, indent)
    ELSE _collect_additional_mapping_entries(lines, index + 1,
                                             SetEnt(current, kv.key, kv.value), indent)

\* lines 128-137, for the index _peek gave
CollectStep(lines, index, current, indent) ==
    IF index >= Len(lines) THEN Parsed(VMap(current), index)
    ELSE IF lines[index + 1].indent < indent THEN Parsed(VMap(current), index)
    ELSE IF lines[index + 1].indent > indent THEN YamlError
    ELSE IF StartsWith(Strip(lines[index + 1].text), <<"-", " ">>)
    THEN Parsed(VMap(current), index)
    ELSE CollectEntry(lines, index, _parse_key_value(Strip(lines[index + 1].text)),
                      current, indent)

\* _collect_additional_mapping_entries for an OrderedDict `current` (its
\* entries): the while loop of lines 127-145
_collect_additional_mapping_entries(lines, idx, current, indent) ==
    CollectStep(lines, _peek(lines, idx), current, indent)

\* lines 121-126, for the index _peek gave
ScalarItemCheck(lines, saved, index, value, indent) ==
    IF /\ index < Len(lines)
       /\ lines[index + 1].indent >= indent
       /\ ~StartsWith(Strip(lines[index + 1].text), <<"-", " ">>)
    THEN YamlError
    ELSE Parsed(value, saved)

\* _collect_additional_mapping_entries for a scalar `current`, lines 120-126
CollectAfterScalar(lines, idx, value, indent) ==
    ScalarItemCheck(lines, idx, _peek(lines, idx), value, indent)

\* lines 101-103, for the nested block r
ItemWithKey(key, r, inner) ==
    IF r.err THEN YamlError ELSE Parsed(VMap(<<VEnt(key, r.val)>>), r.idx)

\* lines 111-114, for the nested block r
ItemWithNested(lines, key, r, inner) ==
    IF r.err THEN YamlError
    ELSE _collect_additional_mapping_entries(lines, r.idx, <<VEnt(key, r.val)>>, inner)

\* a variant that returns the first entry without collecting the following ones
FirstEntryOnly(lines, idx, key, remainder, inner) ==
    Parsed(VMap(<<VEnt(key, _parse_scalar(remainder))>>), idx)

\* lines 105-114
ItemWithEntry(lines, idx, key, remainder, inner) ==
    IF remainder # <<>>
    THEN _collect_additional_mapping_entries(
             lines, idx, <<VEnt(key, _parse_scalar(remainder))>>, inner)
    ELSE ItemWithNested(lines, key, _parse_block(lines, idx, inner), inner)

_parse_list_item(lines, idx, text, parent_indent) ==
    IF text = <<>> THEN _parse_block(lines, idx, parent_indent + indent_size)
    ELSE IF EndsWith(text, <<":">>)
    THEN ItemWithKey(Strip(SubSeq(text, 1, Len(text) - 1)),
                     _parse_block(lines, idx, parent_indent + indent_size),
                     parent_indent + indent_size)
    ELSE IF HasChar(text, ":")
    THEN ItemWithEntry(lines, idx, BeforeColon(text), AfterColon(text),
                       parent_indent + indent_size)
    ELSE CollectAfterScalar(lines, idx, _parse_scalar(Strip(text)),
                            parent_indent + indent_size)

\* lines 34-37, for the root block r
ParseResult(lines, r) ==
    IF r.err THEN YamlError
    ELSE IF _skip_blank_lines(lines, r.idx) # Len(lines) THEN YamlError
    ELSE Parsed(r.val, Len(lines))

\* SimpleYaml.parse
parse(lines) == ParseResult(lines, _parse_block(lines, 0, 0))

\* load(text): the value, or err when YamlError is raised
load(text) == parse(MakeLines(SplitLines(text, <<>>)))

-----------------------------------------------------------------------------
\* toc.py: StoplightNode and TocParser
\*
\* A raw record is a dict; a field the dict lacks and a field holding "" or
\* None are both the empty sequence (the code reads them with `get(..) or`).
\* A child-list field is [kind, list]: kind "absent" when the dict has no
\* such key, "other" when the key holds something that is no list, "list"
\* otherwise. `body` is not a field of the dict: it is what the content
\* source answers when asked for the markdown of the node made from the
\* record ("none": None, "text": the text, "raise": a transport failure).

T_group == <<"g","r","o","u","p">>
T_section == <<"s","e","c","t","i","o","n">>
T_chapter == <<"c","h","a","p","t","e","r">>
T_http_service == <<"h","t","t","p","_","s","e","r","v","i","c","e">>
T_http_dash_service == <<"h","t","t","p","-","s","e","r","v","i","c","e">>
T_node == <<"n","o","d","e">>
T_markdown == <<"m","a","r","k","d","o","w","n">>
T_page == <<"p","a","g","e">>
T_article == <<"a","r","t","i","c","l","e">>
T_md == <<"m","d">>
T_operation == <<"h","t","t","p","_","s","e","r","v","i","c","e",".","o","p","e","r","a","t","i","o","n">>
T_Untitled == <<"U","n","t","i","t","l","e","d">>

GroupTags == {T_group, T_section, T_chapter, T_http_service, T_http_dash_service}
LeafTags == {T_markdown, T_page, T_article, T_md, T_operation}

\* `a or b` on strings
Or(a, b) == IF a # <<>> THEN a ELSE b

ChildListKeys == <<"items", "children", "contents", "nodes">>

\* lines 45-50: the list under the first key that is present and holds a
\* list; <<>> also stands for None (both are falsy and iterate as empty)
RECURSIVE FirstChildList(_, _)
FirstChildList(item, i) ==
    IF i > Len(ChildListKeys) THEN <<>>
    ELSE IF item[ChildListKeys[i]].kind = "list" THEN item[ChildListKeys[i]].list
    ELSE FirstChildList(item, i + 1)

children_data(item) == FirstChildList(item, 1)

\* lines 39-44
NodeType(item) == Lower(Or(item.type, Or(item.kind, <<>>)))
NodeTitle(item) ==
    Or(Or(item.title, Or(item.name, item.label)),
       Or(item.slug, Or(item.id, T_Untitled)))
NodeSlug(item) == Or(item.slug, Or(item.uriSlug, item.permalink))
NodeId(item) == Or(item.id, item.targetId)

StoplightNode(type, item, children) ==
    [type |-> type, title |-> NodeTitle(item), slug |-> NodeSlug(item),
     id |-> NodeId(item), raw |-> item, children |-> children]

is_markdown(node) == node.type \in {T_article, T_markdown, T_page, T_md}
is_section(node) ==
    node.type \in {T_group, T_section, T_chapter, T_node, T_http_service}

\* a variant that keeps such a record as an article
KeptAsArticle(item) == <<StoplightNode(T_article, item, <<>>)>>

\* line 93: a record that matches no rule gives None
Discarded(item) == <<>>

RECURSIVE _parse_item(_)
RECURSIVE ParseEach(_)
RECURSIVE Classify(_, _, _)

\* the comprehensions of lines 52-54 and 73-75
ParseEach(data) == Flatten([i \in DOMAIN data |-> _parse_item(data[i])])

\* a variant that looks at the inline content before the child list
InlineFirst(item, node_type, data) ==
    IF node_type \in GroupTags THEN <<StoplightNode(T_group, item, ParseEach(data))>>
    ELSE IF node_type \in LeafTags THEN <<StoplightNode(T_article, item, <<>>)>>
    ELSE IF item.markdown # <<>> THEN <<StoplightNode(T_article, item, <<>>)>>
    ELSE IF data # <<>> THEN <<StoplightNode(T_group, item, ParseEach(data))>>
    ELSE <<>>

\* lines 51-93, for the node type and the child list read from the record
Classify(item, node_type, data) ==
    IF node_type \in GroupTags THEN <<StoplightNode(T_group, item, ParseEach(data))>>
    ELSE IF node_type \in LeafTags THEN <<StoplightNode(T_article, item, <<>>)>>
    ELSE IF data # <<>> THEN <<StoplightNode(T_group, item, ParseEach(data))>>
    ELSE IF item.markdown # <<>> THEN <<StoplightNode(T_article, item, <<>>)>>
    ELSE Discarded(item)

\* _parse_item: <<>> for None, <<node>> for a node
_parse_item(item) == Classify(item, NodeType(item), children_data(item))

\* TocParser.parse
TocParse(items) == ParseEach(items)

-----------------------------------------------------------------------------
\* pathlib: a path is the sequence of its parts

\* str(path)
PathStr(path) == IF path = <<>> THEN <<".">> ELSE Join(path, <<"/">>)

\* path.parent
Parent(path) == IF path = <<>> THEN <<>> ELSE SubSeq(path, 1, Len(path) - 1)

IsUnder(path, other) ==
    Len(other) <= Len(path) /\ SubSeq(path, 1, Len(other)) = other

\* path.relative_to(other), for a path under other (ValueError otherwise)
RelativeTo(path, other) == SubSeq(path, Len(other) + 1, Len(path))

\* the paths path.mkdir(parents=True) makes sure exist
WithParents(path) == {PathStr(SubSeq(path, 1, n)) : n \in 1..Len(path)}

-----------------------------------------------------------------------------
\* migrator.py: the navigation synthesizer

K_navigation == <<"n","a","v","i","g","a","t","i","o","n">>
K_page == <<"p","a","g","e">>
K_section == <<"s","e","c","t","i","o","n">>
K_slug == <<"s","l","u","g">>
K_path == <<"p","a","t","h">>
K_contents == <<"c","o","n","t","e","n","t","s">>
K_title == <<"t","i","t","l","e">>
MdxSuffix == <<".","m","d","x">>

\* _format_front_matter_value
_format_front_matter_value(value) ==
    IF value = <<>> THEN <<"'", "'">>
    ELSE IF HasChar(value, "\n") \/ HasChar(value, ":") \/ value # Strip(value)
    THEN <<"\"">> \o Escape(value) \o <<"\"">>
    ELSE value

\* markdown.strip(), line 123
TrimBody(markdown) == Strip(markdown)

\* lines 123-126: the body, when it is not empty, and the closing ""
BodyLines(body) == (IF body # <<>> THEN <<body>> ELSE <<>>) \o << <<>> >>

\* _wrap_markdown
_wrap_markdown(title, slug, markdown) ==
    Join(<< <<"-","-","-">>,
            K_slug \o <<":", " ">> \o slug,
            K_title \o <<":", " ">> \o _format_front_matter_value(title),
            <<"-","-","-">>,
            <<>> >> \o BodyLines(TrimBody(markdown)),
         <<"\n">>)

\* one entry of the log
Ev(op, arg, res, found) == [op |-> op, arg |-> arg, res |-> res, found |-> found]

\* The conversion threads the state it changes: st.reg is slug_registry,
\* st.pages the page files, st.log the log, st.err the exception raised
\* ("" when none). A conversion returns [entry, st], entry being <<>> for
\* None and <<value>> for an entry.
Raise(st, name) ==
    [st EXCEPT !.err = name, !.log = Append(@, Ev(name, <<>>, <<>>, FALSE))]

PageEntry(title, slug, path) ==
    VMap(<<VEnt(K_page, VStr(title)), VEnt(K_slug, VStr(slug)),
           VEnt(K_path, VStr(path))>>)

SectionEntry(title, slug, contents) ==
    VMap(<<VEnt(K_section, VStr(title)), VEnt(K_slug, VStr(slug)),
           VEnt(K_contents, VList(contents))>>)

\* node.slug or slugify(node.title)
SlugSeed(node) == Or(node.slug, slugify(node.title))

\* the allocation r of a slug, logged
Allocated(st, requested, r) ==
    [slug |-> r.slug,
     st |-> [st EXCEPT !.reg = r.reg,
                       !.log = Append(@, Ev("alloc", requested, r.slug, TRUE))]]

AllocSlug(st, requested) ==
    Allocated(st, requested, EnsureUniqueSlug(st.reg, requested))

\* a variant that calls client.get_markdown(node) a second time
GetMarkdownTwice(node, st) ==
    [st EXCEPT !.log = @ \o << Ev("get_markdown", node.title, node.raw.body.text,
                                  node.raw.body.kind = "text"),
                               Ev("get_markdown", node.title, node.raw.body.text,
                                  node.raw.body.kind = "text") >>]

\* line 100: the call of client.get_markdown(node), logged
GetMarkdown(node, st) ==
    [st EXCEPT !.log = Append(@, Ev("get_markdown", node.title, node.raw.body.text,
                                    node.raw.body.kind = "text"))]

\* lines 104-105: self.pages_dir / f"{slug}.mdx"
OutputPath(cfg, slug) == Append(cfg.pages_dir, slug \o MdxSuffix)

\* line 108: output_path.write_text(page_content)
WriteText(st, path, content) ==
    [st EXCEPT !.pages = (path :> content) @@ @,
               !.log = Append(@, Ev("write_page", path, content, TRUE))]

\* lines 106-108
WritePage(node, slug, st, cfg) ==
    IF cfg.dry_run THEN st
    ELSE WriteText(st, PathStr(OutputPath(cfg, slug)),
                   _wrap_markdown(node.title, slug, node.raw.body.text))

\* line 112: str(output_path.relative_to(self.config.docs_yml_path.parent))
EntryPath(cfg, slug) ==
    PathStr(RelativeTo(OutputPath(cfg, slug), Parent(cfg.docs_yml_path)))

\* lines 109-113
MakePageEntry(node, slug, st, cfg) ==
    IF ~IsUnder(OutputPath(cfg, slug), Parent(cfg.docs_yml_path))
    THEN [entry |-> <<>>, st |-> Raise(st, "ValueError")]
    ELSE [entry |-> <<PageEntry(node.title, slug, EntryPath(cfg, slug))>>,
          st |-> [st EXCEPT !.log = Append(@, Ev("page", slug, EntryPath(cfg, slug),
                                                 TRUE))]]

\* a variant that makes no entry for a page it does not write
CreatePageIfWritten(node, a, cfg) ==
    IF cfg.dry_run THEN [entry |-> <<>>, st |-> a.st]
    ELSE MakePageEntry(node, a.slug, WritePage(node, a.slug, a.st, cfg), cfg)

\* lines 103-113, for the allocation a
CreatePage(node, a, cfg) ==
    MakePageEntry(node, a.slug, WritePage(node, a.slug, a.st, cfg), cfg)

\* _create_page_entry
_create_page_entry(node, st, cfg) ==
    IF node.raw.body.kind = "raise"
    THEN [entry |-> <<>>, st |-> Raise(GetMarkdown(node, st), "OSError")]
    ELSE IF node.raw.body.kind = "none"
    THEN [entry |-> <<>>, st |-> GetMarkdown(node, st)]
    ELSE CreatePage(node, AllocSlug(GetMarkdown(node, st), SlugSeed(node)), cfg)

RECURSIVE _convert_node(_, _, _)
RECURSIVE ConvertChildren(_, _, _, _)
RECURSIVE ConvertRest(_, _, _, _)

\* lines 70-72 and 84-86, for the conversion r of the first child
ConvertRest(rest, r, cfg, contents) ==
    ConvertChildren(rest, r.st, cfg, contents \o r.entry)

\* the loops of lines 69-72 and 83-86
ConvertChildren(children, st, cfg, contents) ==
    IF children = <<>> \/ st.err # "" THEN [contents |-> contents, st |-> st]
    ELSE ConvertRest(Tail(children), _convert_node(Head(children), st, cfg), cfg,
                     contents)

\* lines 76-80 and 89-93, for the allocation a
MakeSection(node, contents, a) ==
    [entry |-> <<SectionEntry(node.title, a.slug, contents)>>, st |-> a.st]

\* a variant that makes a section of a group none of whose children survive
EmptySectionKept(node, c) ==
    IF c.st.err # "" THEN [entry |-> <<>>, st |-> c.st]
    ELSE MakeSection(node, c.contents, AllocSlug(c.st, SlugSeed(node)))

\* lines 73-80, for the converted children c
SectionOf(node, c) ==
    IF c.st.err # "" \/ c.contents = <<>> THEN [entry |-> <<>>, st |-> c.st]
    ELSE MakeSection(node, c.contents, AllocSlug(c.st, SlugSeed(node)))

\* lines 87-97, for the converted children c
SectionOrPage(node, c, cfg) ==
    IF c.st.err # "" THEN [entry |-> <<>>, st |-> c.st]
    ELSE IF c.contents # <<>>
    THEN MakeSection(node, c.contents, AllocSlug(c.st, SlugSeed(node)))
    ELSE _create_page_entry(node, c.st, cfg)

_convert_node(node, st, cfg) ==
    IF is_markdown(node) THEN _create_page_entry(node, st, cfg)
    ELSE IF is_section(node)
    THEN SectionOf(node, ConvertChildren(node.children, st, cfg, <<>>))
    ELSE IF node.children # <<>>
    THEN SectionOrPage(node, ConvertChildren(node.children, st, cfg, <<>>), cfg)
    ELSE _create_page_entry(node, st, cfg)

\* lines 42-46: the list the generated navigation is appended to, or <<>>
\* when the navigation replaces what is there
ExistingNavigation(doc, cfg) ==
    IF ~HasKey(doc, K_navigation) \/ ~cfg.overwrite_navigation
    THEN IF HasKey(doc, K_navigation) /\ IsList(Get(doc, K_navigation))
         THEN Get(doc, K_navigation).kids
         ELSE <<>>
    ELSE <<>>

\* a variant that puts the generated entries first
GeneratedFirst(existing, generated) == generated \o existing

\* line 46: existing + navigation
MergedNavigation(existing, generated) == existing \o generated

-----------------------------------------------------------------------------
\* Slug allocation on its own: any sequence of requests to one migrator

MaxRequests == 4

S_FAQ == <<"F","A","Q">>
S_FAQ2 == <<"F","A","Q"," ","2">>
S_faq_2 == <<"f","a","q","-","2">>
S_faq_2_2 == <<" ","f","a","q"," ","2","-","2","!">>
S_bang == <<"!","?">>
S_page == <<"P","a","g","e">>

SlugRequests == {S_FAQ, S_FAQ2, S_faq_2, S_faq_2_2, S_bang, S_page}

\* the values of a load / dump / load sequence: the text, load's result
\* (failed: YamlError was raised), dump's output and the second load's result
YamlState(phase, text, doc, out, again, failed) ==
    [phase |-> phase, text |-> text, doc |-> doc, out |-> out, again |-> again,
     failed |-> failed]

NoYaml == YamlState("idle", <<>>, VNull, <<>>, VNull, FALSE)

SlugInit ==
    /\ pc = "slugs"
    /\ config = <<>>
    /\ raw = <<>>
    /\ nodes = <<>>
    /\ navigation = <<>>
    /\ slug_registry = EmptyRegistry
    /\ fs = <<>>
    /\ printed = <<>>
    /\ docs_config = <<>>
    /\ log = <<>>
    /\ cursor = 0
    /\ yaml = NoYaml

RequestSlug ==
    /\ pc = "slugs"
    /\ Len(log) < MaxRequests
    /\ \E requested \in SlugRequests :
       \E r \in {EnsureUniqueSlug(slug_registry, requested)} :
          /\ slug_registry' = r.reg
          /\ log' = Append(log, Ev("alloc", requested, r.slug, TRUE))
    /\ UNCHANGED <<pc, config, raw, nodes, navigation, fs, printed,
                   docs_config, cursor, yaml>>

SlugNext == RequestSlug

SlugSpec == SlugInit /\ [][SlugNext]_vars

-----------------------------------------------------------------------------
\* The migration: StoplightMigrator(client, config) and then migrate()

\* the raw trees hold at most MaxNodes records
MaxNodes == 3

NoList == [kind |-> "absent", list |-> <<>>]
ListOf(l) == [kind |-> "list", list |-> l]
NotAList == [kind |-> "other", list |-> <<>>]

NoBody == [kind |-> "none", text |-> <<>>]
BodyText(text) == [kind |-> "text", text |-> text]
\* the file of the article cannot be read: get_markdown raises OSError
Unreadable == [kind |-> "raise", text |-> <<>>]

RawItem(type, kind, title, markdown, items, children, body) ==
    [type |-> type, kind |-> kind,
     title |-> title, name |-> <<>>, label |-> <<>>,
     slug |-> <<>>, uriSlug |-> <<>>, permalink |-> <<>>,
     id |-> <<>>, targetId |-> <<>>,
     items |-> items, children |-> children, contents |-> NoList, nodes |-> NoList,
     markdown |-> markdown, body |-> body]

S_Markdown == <<"M","a","r","k","d","o","w","n">>
S_Group == <<"G","r","o","u","p">>
S_Hi == <<" ","#"," ","H","i","\n">>

\* records without a child list
Leaves ==
    { RawItem(S_Markdown, <<>>, S_FAQ, <<>>, NoList, NoList, BodyText(S_Hi)),
      RawItem(S_Markdown, <<>>, S_FAQ2, <<>>, NoList, NoList, BodyText(S_Hi)),
      RawItem(S_Markdown, <<>>, S_FAQ, <<>>, NoList, NoList, NoBody),
      RawItem(<<>>, <<>>, S_FAQ2, <<>>, NoList, NoList, BodyText(S_Hi)),
      RawItem(S_Markdown, <<>>, S_FAQ2, <<>>, NoList, NoList, Unreadable) }

\* records with a child list: tagged as a group under `kind`, or untagged
Group(tagged, kids) ==
    RawItem(<<>>, IF tagged THEN S_Group ELSE <<>>, S_FAQ, <<>>, ListOf(kids), NoList,
            NoBody)

\* the sequences of raw records that hold exactly n records in all
RECURSIVE ForestsOf(_)
ForestsOf(n) ==
    IF n = 0 THEN {<<>>}
    ELSE UNION { { <<first>> \o rest : first \in
                      (IF k = 1 THEN Leaves ELSE {})
                      \cup { Group(tagged, kids) :
                               tagged \in BOOLEAN, kids \in ForestsOf(k - 1) },
                   rest \in ForestsOf(n - k) } : k \in 1..n }

RawForests == UNION { ForestsOf(n) : n \in 1..MaxNodes }

P_docs == <<"d","o","c","s">>
P_pages == <<"p","a","g","e","s">>
P_fern == <<"f","e","r","n">>
P_docs_yml == <<"d","o","c","s",".","y","m","l">>

\* the pages directory is docs/pages; the configuration file is docs.yml or
\* fern/docs.yml
Configs ==
    { [docs_yml_path |-> path, pages_dir |-> <<P_docs, P_pages>>,
       overwrite_navigation |-> o, dry_run |-> d] :
      path \in {<<P_docs_yml>>, <<P_fern, P_docs_yml>>},
      o \in BOOLEAN, d \in BOOLEAN }

NoFile == [exists |-> FALSE, text |-> <<>>]
File(text) == [exists |-> TRUE, text |-> text]

D_WithNavigation ==
    <<"t","i","t","l","e",":"," ","D","o","c","s","\n","n","a","v","i","g","a","t","i","o","n",":","\n"," "," ","-"," ","p","a","g","e",":"," ","O","l","d","\n"," "," "," "," ","s","l","u","g",":"," ","f","a","q","\n","c","o","l","o","r","s",":"," ","1","2","\n">>
D_NoNavigation == <<"t","i","t","l","e",":"," ","D","o","c","s","\n">>
D_ScalarNavigation == <<"n","a","v","i","g","a","t","i","o","n",":"," ","n","o","n","e","\n","t","i","t","l","e",":"," ","D","o","c","s","\n">>
D_Malformed == <<"t","i","t","l","e",":"," ","D","o","c","s","\n"," "," "," "," ","c","o","l","o","r","s",":"," ","1","2","\n">>
D_TopLevelList == <<"-"," ","t","i","t","l","e",":"," ","D","o","c","s","\n">>

DocsFiles ==
    { NoFile, File(D_WithNavigation), File(D_NoNavigation), File(D_ScalarNavigation),
      File(D_Malformed), File(D_TopLevelList) }

Init ==
    /\ pc = "new"
    /\ config \in Configs
    /\ raw \in RawForests
    /\ nodes = <<>>
    /\ navigation = <<>>
    /\ slug_registry = EmptyRegistry
    /\ \E d \in DocsFiles :
          fs = [dirs |-> {PathStr(Parent(config.docs_yml_path))},
                pages |-> <<>>, docs |-> d]
    /\ printed = <<>>
    /\ docs_config = VNull
    /\ log = <<>>
    /\ cursor = 0
    /\ yaml = NoYaml

\* StoplightMigrator.__init__
Construct ==
    /\ pc = "new"
    /\ pc' = "ready"
    /\ slug_registry' = EmptyRegistry
    /\ fs' = [fs EXCEPT !.dirs = @ \cup WithParents(config.pages_dir)]
    /\ log' = Append(log, Ev("mkdir", PathStr(config.pages_dir), <<>>, TRUE))
    /\ UNCHANGED <<config, raw, nodes, navigation, printed, docs_config, cursor, yaml>>

\* migrate(), lines 35-36
LoadTree ==
    /\ pc = "ready"
    /\ pc' = "convert"
    /\ nodes' = TocParse(raw)
    /\ navigation' = <<>>
    /\ cursor' = 1
    /\ UNCHANGED <<config, raw, slug_registry, fs, printed, docs_config, log, yaml>>

\* migrate(), lines 37-40: one turn of the loop
ConvertNext ==
    /\ pc = "convert"
    /\ cursor <= Len(nodes)
    /\ \E r \in {_convert_node(nodes[cursor],
                                [reg |-> slug_registry, pages |-> fs.pages,
                                 log |-> log, err |-> ""],
                                config)} :
           /\ slug_registry' = r.st.reg
           /\ fs' = [fs EXCEPT !.pages = r.st.pages]
           /\ log' = r.st.log
           /\ IF r.st.err # ""
              THEN pc' = "failed" /\ UNCHANGED <<navigation, cursor>>
              ELSE /\ pc' = "convert"
                   /\ navigation' = navigation \o r.entry
                   /\ cursor' = cursor + 1
    /\ UNCHANGED <<config, raw, nodes, printed, docs_config, yaml>>

\* a variant that removes a configuration file it cannot parse and goes on
\* as if there were none
LoadDocsYmlOrReset ==
    /\ pc = "convert"
    /\ cursor > Len(nodes)
    /\ pc' = "merge"
    /\ \E r \in {load(fs.docs.text)} :
       IF ~fs.docs.exists \/ r.err
       THEN docs_config' = VMap(<<>>) /\ fs' = [fs EXCEPT !.docs = NoFile]
       ELSE docs_config' = r.val /\ UNCHANGED fs
    /\ UNCHANGED <<config, raw, nodes, navigation, slug_registry, printed, log,
                   cursor, yaml>>

\* migrate(), line 41: _load_docs_yml
LoadDocsYml ==
    /\ pc = "convert"
    /\ cursor > Len(nodes)
    /\ \E r \in {load(fs.docs.text)} :
       IF ~fs.docs.exists
       THEN pc' = "merge" /\ docs_config' = VMap(<<>>) /\ UNCHANGED log
       ELSE IF r.err
       THEN /\ pc' = "failed"
            /\ log' = Append(log, Ev("YamlError", <<>>, <<>>, FALSE))
            /\ UNCHANGED docs_config
       ELSE pc' = "merge" /\ docs_config' = r.val /\ UNCHANGED log
    /\ UNCHANGED <<config, raw, nodes, navigation, slug_registry, fs, printed,
                   cursor, yaml>>

\* migrate(), lines 42-47
Merge ==
    /\ pc = "merge"
    /\ IF ~IsMap(docs_config)
       THEN \* docs_config is a list: docs_config.get raises AttributeError
            /\ pc' = "failed"
            /\ log' = Append(log, Ev("AttributeError", <<>>, <<>>, FALSE))
            /\ UNCHANGED <<navigation, docs_config>>
       ELSE /\ pc' = "emit"
            /\ navigation' = MergedNavigation(ExistingNavigation(docs_config, config),
                                              navigation)
            /\ docs_config' = MapSet(docs_config, K_navigation, VList(navigation'))
            /\ UNCHANGED log
    /\ UNCHANGED <<config, raw, nodes, slug_registry, fs, printed, cursor, yaml>>

\* migrate(), lines 48-51: print, or _write_docs_yml
Emit ==
    /\ pc = "emit"
    /\ pc' = "done"
    /\ \E text \in {dump(docs_config)} :
       IF config.dry_run
       THEN /\ printed' = printed \o text \o <<"\n">>
            /\ log' = Append(log, Ev("print", <<>>, text, TRUE))
            /\ UNCHANGED fs
       ELSE /\ fs' = [fs EXCEPT !.docs = File(text)]
            /\ log' = Append(log, Ev("write_docs", PathStr(config.docs_yml_path),
                                     text, TRUE))
            /\ UNCHANGED printed
    /\ UNCHANGED <<config, raw, nodes, navigation, slug_registry, docs_config,
                   cursor, yaml>>

Next == Construct \/ LoadTree \/ ConvertNext \/ LoadDocsYml \/ Merge \/ Emit

Spec == Init /\ [][Next]_vars

\* The caller may call migrate() again on the migrator it has constructed;
\* at most MaxRuns calls are followed.
MaxRuns == 2

\* the calls of migrate() that have returned
RunsCompleted ==
    Cardinality({i \in DOMAIN log : log[i].op \in {"print", "write_docs"}})

\* a further call of migrate() after one that returned: __init__ is not run
\* again, and migrate() starts at line 35 with the fields as they are
MigrateAgain ==
    /\ pc = "done"
    /\ RunsCompleted < MaxRuns
    /\ pc' = "ready"
    /\ UNCHANGED <<config, raw, nodes, navigation, slug_registry, fs, printed,
                   docs_config, log, cursor, yaml>>

RerunNext == Next \/ MigrateAgain

RerunSpec == Init /\ [][RerunNext]_vars

-----------------------------------------------------------------------------
\* The table-of-contents parser on its own: TocParser(items).parse()

S_lower_page == <<"p","a","g","e">>
S_widget == <<"w","i","d","g","e","t">>
S_Chapter == <<"C","h","a","p","t","e","r">>

TocLeaves ==
    { RawItem(S_Markdown, <<>>, S_FAQ, <<>>, NoList, NoList, NoBody),
      RawItem(<<>>, <<>>, S_FAQ2, <<>>, NoList, NoList, NoBody) }

TocLists == {NoList, NotAList, ListOf(<<>>)} \cup { ListOf(<<l>>) : l \in TocLeaves }

TocRecords ==
    { RawItem(type, kind, S_FAQ, markdown, items, children, NoBody) :
        type \in {<<>>, S_Group, S_lower_page, S_widget},
        kind \in {<<>>, S_Chapter},
        markdown \in {<<>>, S_Hi},
        items \in TocLists,
        children \in {NoList, ListOf(<<>>)} \cup { ListOf(<<l>>) : l \in TocLeaves } }

TocInit ==
    /\ pc = "toc"
    /\ config = <<>>
    /\ \E r \in TocRecords : raw = <<r>>
    /\ nodes = <<>>
    /\ navigation = <<>>
    /\ slug_registry = EmptyRegistry
    /\ fs = <<>>
    /\ printed = <<>>
    /\ docs_config = VNull
    /\ log = <<>>
    /\ cursor = 0
    /\ yaml = NoYaml

\* parser = TocParser(raw); parser.parse()
TocLoad ==
    /\ pc = "toc"
    /\ pc' = "toc_done"
    /\ nodes' = TocParse(raw)
    /\ UNCHANGED <<config, raw, navigation, slug_registry, fs, printed, docs_config,
                   log, cursor, yaml>>

TocNext == TocLoad

TocSpec == TocInit /\ [][TocNext]_vars

-----------------------------------------------------------------------------
\* The YAML engine on its own: load(text), dump of the result, load again

\* the texts hold at most MaxLines lines
MaxLines == 3

YamlLines ==
    { <<"k",":"," ","v","\n">>,
      <<"j",":","\n">>,
      <<"-"," ","x","\n">>,
      <<"-","\n">>,
      <<" "," ","m",":"," ","'","t","r","u","e","'","\n">>,
      <<" "," ","-"," ","\"","1","2","\"","\n">>,
      <<"-"," ","k",":"," ","1",".","5","0","\n">>,
      <<"j",":"," ","a","\"","b","\n">>,
      <<" "," ","n",":"," ","n","u","l","l","\n">>,
      <<"-"," ","j",":","\n">>,
      <<" "," "," "," ","m",":"," ","v","\n">>,
      <<"k",":"," ","|","\n">>,
      <<" "," ","n",":"," ",">","\n">>,
      <<"-"," ","j",":"," ",">","\n">>,
      <<" "," ","-"," ","k",":"," ","v","\n">> }

RECURSIVE TextsOf(_)
TextsOf(n) ==
    IF n = 0 THEN {<<>>}
    ELSE { line \o rest : line \in YamlLines, rest \in TextsOf(n - 1) }

YamlTexts == UNION { TextsOf(n) : n \in 1..MaxLines }

YamlInit ==
    /\ pc = "yaml"
    /\ config = <<>>
    /\ raw = <<>>
    /\ nodes = <<>>
    /\ navigation = <<>>
    /\ slug_registry = EmptyRegistry
    /\ fs = <<>>
    /\ printed = <<>>
    /\ docs_config = VNull
    /\ log = <<>>
    /\ cursor = 0
    /\ \E text \in YamlTexts : yaml = YamlState("text", text, VNull, <<>>, VNull, FALSE)

YamlUnchanged ==
    UNCHANGED <<pc, config, raw, nodes, navigation, slug_registry, fs, printed,
                docs_config, log, cursor>>

\* v = load(text)
YamlLoad ==
    /\ yaml.phase = "text"
    /\ \E r \in {load(yaml.text)} :
          yaml' = IF r.err THEN [yaml EXCEPT !.phase = "rejected", !.failed = TRUE]
                  ELSE [yaml EXCEPT !.phase = "loaded", !.doc = r.val]
    /\ YamlUnchanged

\* out = dump(v)
YamlDump ==
    /\ yaml.phase = "loaded"
    /\ yaml' = [yaml EXCEPT !.phase = "dumped", !.out = dump(yaml.doc)]
    /\ YamlUnchanged

\* load(out)
YamlReload ==
    /\ yaml.phase = "dumped"
    /\ \E r \in {load(yaml.out)} :
          yaml' = IF r.err THEN [yaml EXCEPT !.phase = "reloaded", !.failed = TRUE]
                  ELSE [yaml EXCEPT !.phase = "reloaded", !.again = r.val]
    /\ YamlUnchanged

YamlNext == YamlLoad \/ YamlDump \/ YamlReload

YamlSpec == YamlInit /\ [][YamlNext]_vars

-----------------------------------------------------------------------------
\* Properties of the migration, of the slug registry, of the parser of the
\* table of contents and of the YAML engine

NoDuplicates(s) == \A i, j \in DOMAIN s : i # j => s[i] # s[j]

\* the slug fields of navigation entries, pages and sections at every depth
RECURSIVE SlugsOf(_)
SlugsOf(entries) ==
    IF entries = <<>> THEN <<>>
    ELSE (IF HasKey(Head(entries), K_slug)
          THEN <<Get(Head(entries), K_slug).s>> ELSE <<>>)
         \o (IF HasKey(Head(entries), K_contents)
             THEN SlugsOf(Get(Head(entries), K_contents).kids) ELSE <<>>)
         \o SlugsOf(Tail(entries))

\* what _ensure_unique_slug has returned so far
AllocResults == [i \in DOMAIN SelectSeq(log, LAMBDA e : e.op = "alloc") |->
                    SelectSeq(log, LAMBDA e : e.op = "alloc")[i].res]

\* the navigation holds the generated entries only (the existing ones are
\* put in front of them by the merge)
GeneratedOnly == pc \in {"convert", "merge", "failed"}

\* C1: within one run the slugs of the generated navigation, flattened over
\* pages and sections at every depth, are pairwise distinct, each of them is
\* a slug _ensure_unique_slug returned, and _ensure_unique_slug never
\* returns a value it has returned before.
C1_SlugsDistinct ==
    /\ NoDuplicates(AllocResults)
    /\ GeneratedOnly =>
          /\ NoDuplicates(SlugsOf(navigation))
          /\ Range(SlugsOf(navigation)) \subseteq Range(AllocResults)

\* three pages titled FAQ, FAQ and "FAQ 2": the third title normalizes to
\* the slug minted for the second
C1_Witness ==
    /\ pc = "merge"
    /\ SlugsOf(navigation) = <<<<"f","a","q">>, <<"f","a","q","-","2">>, <<"f","a","q","-","2","-","2">>>>

\* C2: for every value v that load produces, load(dump(v)) succeeds and
\* gives v back.
C2_RoundTrip ==
    yaml.phase = "reloaded" => ~yaml.failed /\ yaml.again = yaml.doc

\* the step of migrate() that merges the generated navigation into the
\* existing document
MergeStep == pc = "merge" /\ pc' = "emit"

C3_Step ==
    (/\ MergeStep
     /\ ~config.overwrite_navigation
     /\ HasKey(docs_config, K_navigation)
     /\ IsList(Get(docs_config, K_navigation)))
    => /\ HasKey(docs_config', K_navigation)
       /\ Get(docs_config', K_navigation)
             = VList(Get(docs_config, K_navigation).kids \o navigation)

\* C3: when overwrite_navigation is false and the existing document has a
\* navigation list, the navigation of the merged document is the existing
\* list followed by the generated list, nothing dropped, duplicated or
\* reordered.
C3_AppendMerge == [][C3_Step]_vars

\* an existing entry followed by two generated ones
C3_Witness ==
    /\ pc = "emit"
    /\ ~config.overwrite_navigation
    /\ fs.docs = File(D_WithNavigation)
    /\ Len(navigation) = 3
    /\ Get(docs_config, K_navigation).kids = navigation
    /\ Get(navigation[1], K_page) = VStr(<<"O","l","d">>)

OtherEntries(doc) == SelectSeq(doc.kids, LAMBDA e : e.s # K_navigation)

C4_Step ==
    MergeStep =>
       /\ OtherEntries(docs_config') = OtherEntries(docs_config)
       /\ Keys(docs_config') = IF HasKey(docs_config, K_navigation)
                               THEN Keys(docs_config)
                               ELSE Append(Keys(docs_config), K_navigation)

\* C4: the merge leaves every key of the existing document other than
\* navigation with its value and in its place, in replace and in append
\* mode; an existing navigation key keeps its position and a missing one is
\* added after all the others.
C4_MergeFrame == [][C4_Step]_vars

\* replace mode, on a document that holds navigation between two other keys
C4_Witness ==
    /\ pc = "emit"
    /\ config.overwrite_navigation
    /\ Keys(docs_config) = <<K_title, K_navigation, <<"c","o","l","o","r","s">>>>
    /\ Get(docs_config, <<"c","o","l","o","r","s">>) = VInt(12)
    /\ navigation # <<>>
    /\ Get(docs_config, K_navigation) = VList(navigation)

WriteOps == {"mkdir", "write_page", "write_docs"}

\* C5: with dry_run set, constructing the migrator and running migrate
\* writes nothing: no page file, no configuration file, no directory.
C5_DryRunWritesNothing ==
    config.dry_run =>
       /\ fs.pages = <<>>
       /\ fs.dirs = {PathStr(Parent(config.docs_yml_path))}
       /\ \A i \in DOMAIN log : log[i].op \notin WriteOps

\* A raw record the dropped-node law is about: no recognized discriminator,
\* no child list, no inline content
Unrecognized(item) ==
    Lower(IF item.type # <<>> THEN item.type ELSE item.kind)
        \notin GroupTags \cup LeafTags

NoChildList(item) ==
    \A k \in {"items", "children", "contents", "nodes"} : item[k].kind # "list"

Droppable(item) == Unrecognized(item) /\ NoChildList(item) /\ item.markdown = <<>>

\* a group whose descendants are all such records
BarrenGroup(item) ==
    /\ item.items.kind = "list"
    /\ \A i \in DOMAIN item.items.list : Droppable(item.items.list[i])

\* the raw records of a forest, at every depth
RECURSIVE RecordsOf(_)
RecordsOf(items) ==
    IF items = <<>> THEN <<>>
    ELSE <<Head(items)>> \o RecordsOf(Head(items).items.list) \o RecordsOf(Tail(items))

\* the canonical nodes of a forest, at every depth
RECURSIVE NodesOf(_)
NodesOf(ns) ==
    IF ns = <<>> THEN <<>>
    ELSE <<Head(ns)>> \o NodesOf(Head(ns).children) \o NodesOf(Tail(ns))

\* the navigation entries, pages and sections at every depth
RECURSIVE EntriesOf(_)
EntriesOf(entries) ==
    IF entries = <<>> THEN <<>>
    ELSE <<Head(entries)>>
         \o (IF HasKey(Head(entries), K_contents)
             THEN EntriesOf(Get(Head(entries), K_contents).kids) ELSE <<>>)
         \o EntriesOf(Tail(entries))

EntryTitle(e) == IF HasKey(e, K_page) THEN Get(e, K_page).s ELSE Get(e, K_section).s

Count(s, Test(_)) == Len(SelectSeq(s, Test))

\* C6: a raw record with no recognized discriminator, no child list and no
\* inline content yields no canonical node and no navigation entry, and a
\* group whose descendants are all such records is absent from the
\* navigation: no node is made from a droppable record, and for every title
\* the navigation holds at most as many entries as there are records of
\* that title that are neither droppable nor barren groups.
C6_DroppedNodes ==
    /\ \A node \in Range(NodesOf(nodes)) : ~Droppable(node.raw)
    /\ GeneratedOnly =>
          \A title \in {S_FAQ, S_FAQ2} :
             Count(EntriesOf(navigation), LAMBDA e : EntryTitle(e) = title)
                <= Count(RecordsOf(raw),
                         LAMBDA r : /\ r.title = title
                                    /\ ~Droppable(r)
                                    /\ ~BarrenGroup(r))

\* a run over a droppable record that has a body at the content source, a
\* group of one droppable record, and an article
C6_Witness ==
    /\ pc = "merge"
    /\ Len(raw) = 2
    /\ BarrenGroup(raw[1]) /\ Len(raw[1].items.list) = 1
    /\ raw[1].items.list[1].body.kind = "text"
    /\ Len(navigation) = 1
    /\ HasKey(navigation[1], K_page)

\* the content source returns the body of the article
BodyReturned(node) == node.raw.body.kind = "text"

\* C7 is about articles and groups
RECURSIVE Yields(_)
Yields(node) ==
    IF node.type = T_article THEN BodyReturned(node)
    ELSE \E i \in DOMAIN node.children : Yields(node.children[i])

\* kind, title and contents of the entries the nodes that yield one give
RECURSIVE Surviving(_)
Surviving(ns) ==
    IF ns = <<>> THEN <<>>
    ELSE (IF Yields(Head(ns))
          THEN <<[kind |-> IF Head(ns).type = T_article THEN "page" ELSE "section",
                  title |-> Head(ns).title,
                  contents |-> Surviving(Head(ns).children)]>>
          ELSE <<>>)
         \o Surviving(Tail(ns))

RECURSIVE ShapeOf(_)
ShapeOf(entries) ==
    IF entries = <<>> THEN <<>>
    ELSE <<[kind |-> IF HasKey(Head(entries), K_page) THEN "page" ELSE "section",
            title |-> EntryTitle(Head(entries)),
            contents |-> IF HasKey(Head(entries), K_contents)
                         THEN ShapeOf(Get(Head(entries), K_contents).kids)
                         ELSE <<>>]>>
         \o ShapeOf(Tail(entries))

\* C7: a canonical node produces an entry exactly when it is an article
\* whose body is returned or a group with a descendant article whose body is
\* returned, the surviving children keep their order, and every section has
\* contents, at every depth. (A run that an error ends produces no
\* navigation.)
C7_EntriesOfYieldingNodes ==
    /\ pc \in {"convert", "merge"} =>
          ShapeOf(navigation) = Surviving(SubSeq(nodes, 1, cursor - 1))
    /\ GeneratedOnly =>
          \A e \in Range(EntriesOf(navigation)) :
             HasKey(e, K_section) =>
                /\ HasKey(e, K_contents)
                /\ Get(e, K_contents).kids # <<>>

\* a group of an article without a body and an article with one, which
\* gives a section of one page
C7_Witness ==
    /\ pc = "merge"
    /\ Len(nodes) = 1
    /\ Len(nodes[1].children) = 2
    /\ ~Yields(nodes[1].children[1])
    /\ Yields(nodes[1].children[2])
    /\ Len(navigation) = 1
    /\ HasKey(navigation[1], K_section)
    /\ Len(Get(navigation[1], K_contents).kids) = 1

\* `b-n`
Suffixed(b, n) == b \o <<"-">> \o NatToStr(n)

\* the request a step of the slug registry serves
C8_Step ==
    \E e \in {log'[Len(log')]} : \E b \in {slugify(e.arg)} :
       IF b \notin DOMAIN slug_registry
       THEN /\ e.res = b
            /\ slug_registry' = (b :> 1) @@ slug_registry
       ELSE \E n \in (slug_registry[b] + 1)..(slug_registry[b] + MaxRequests + 1) :
               /\ Suffixed(b, n) \notin DOMAIN slug_registry
               /\ \A m \in (slug_registry[b] + 1)..(n - 1) :
                     Suffixed(b, m) \in DOMAIN slug_registry
               /\ e.res = Suffixed(b, n)
               /\ slug_registry' = (Suffixed(b, n) :> 1)
                                      @@ [slug_registry EXCEPT ![b] = n]

\* requests of one title only
C8_SameTitle ==
    (\A i \in DOMAIN log : log[i].arg = log[1].arg) =>
       \A i \in DOMAIN log :
          log[i].res = IF i = 1 THEN slugify(log[1].arg)
                       ELSE Suffixed(slugify(log[1].arg), i)

\* C8: a request for a normalized slug b that the registry does not hold (b
\* was neither requested nor minted before) returns b and records it with
\* counter 1; a request for a b the registry holds returns b-n for the
\* smallest n greater than b's recorded counter for which b-n is not
\* reserved, and records n as b's counter and b-n with counter 1; k requests
\* of one title get b, b-2, ..., b-k.
C8_SlugAllocation == [](C8_SameTitle) /\ [][C8_Step]_vars

\* faq-2 is requested first, so the second FAQ gets faq-3
C8_Witness ==
    /\ Len(log) = 3
    /\ log[1].arg = S_faq_2
    /\ log[3].res = <<"f","a","q","-","3">>
    /\ slug_registry[<<"f","a","q">>] = 3

\* C8 as stated: the first request for a normalized slug b returns b
\* unchanged.
C8_FirstRequestUnchanged ==
    \A i \in DOMAIN log :
       (\A j \in 1..(i - 1) : slugify(log[j].arg) # slugify(log[i].arg))
       => log[i].res = slugify(log[i].arg)

\* the page a found body is to give: the events that follow the call of
\* get_markdown at i up to the entry made
PageOf(i, j) ==
    /\ j > i + 1
    /\ log[i + 1].op = "alloc"
    /\ \A k \in (i + 2)..(j - 1) : log[k].op = "write_page"
    /\ log[j].op = "page"
    /\ log[j].arg = log[i + 1].res
    /\ log[j].res = PathStr(RelativeTo(config.pages_dir, Parent(config.docs_yml_path))
                               \o <<log[i + 1].res \o <<".","m","d","x">>>>)

PageWritten(slug, body) ==
    \E path \in {PathStr(config.pages_dir \o <<slug \o <<".","m","d","x">>>>)} :
       /\ path \in DOMAIN fs.pages
       /\ StartsWith(fs.pages[path], <<"-","-","-","\n","s","l","u","g",":"," ">> \o slug \o <<"\n">>)
       /\ EndsWith(fs.pages[path], <<"-","-","-","\n","\n">> \o Strip(body) \o <<"\n">>)

\* C9: for every article whose body is available, whatever the pages
\* directory and the configuration path, a page entry is made whose path is
\* the pages directory relative to the directory of the configuration file
\* followed by <slug>.mdx for the allocated slug, and outside dry-run the
\* file is written with a front matter carrying the slug, followed by the
\* trimmed body.
C9_PageForEveryBody ==
    \A i \in DOMAIN log :
       (log[i].op = "get_markdown" /\ log[i].found) =>
          \E j \in DOMAIN log :
             /\ PageOf(i, j)
             /\ ~config.dry_run => PageWritten(log[j].arg, log[i].res)

\* C10, for one raw record: the kind its discriminator, its child list and
\* its inline content give
KindOf(item) ==
    IF Lower(IF item.type # <<>> THEN item.type ELSE item.kind) \in GroupTags
    THEN "group"
    ELSE IF Lower(IF item.type # <<>> THEN item.type ELSE item.kind) \in LeafTags
    THEN "article"
    ELSE IF children_data(item) # <<>> THEN "group"
    ELSE IF item.markdown # <<>> THEN "article"
    ELSE "discarded"

RECURSIVE Classified(_)
Classified(items) ==
    IF items = <<>> THEN <<>>
    ELSE (IF KindOf(Head(items)) = "discarded" THEN <<>>
          ELSE <<[type |-> IF KindOf(Head(items)) = "group" THEN T_group
                           ELSE T_article,
                  raw |-> Head(items),
                  children |-> IF KindOf(Head(items)) = "group"
                               THEN Classified(children_data(Head(items)))
                               ELSE <<>>]>>)
         \o Classified(Tail(items))

RECURSIVE KindsOf(_)
KindsOf(ns) ==
    [i \in DOMAIN ns |->
        [type |-> ns[i].type, raw |-> ns[i].raw, children |-> KindsOf(ns[i].children)]]

\* C10: a group-like discriminator gives a group, otherwise a leaf-like one
\* an article without children, otherwise a non-empty child list a group
\* (also when the record carries inline content), otherwise inline content
\* an article, otherwise the record is discarded; every node is a group or
\* an article and every article has no children.
C10_Precedence ==
    pc = "toc_done" =>
       /\ KindsOf(nodes) = Classified(raw)
       /\ \A node \in Range(NodesOf(nodes)) :
             /\ node.type \in {T_group, T_article}
             /\ node.type = T_article => node.children = <<>>

\* a record without a discriminator that has a child and inline content
C10_Witness ==
    /\ pc = "toc_done"
    /\ raw[1].type = <<>> /\ raw[1].kind = <<>>
    /\ raw[1].markdown # <<>>
    /\ raw[1].items.kind = "other"
    /\ raw[1].children.kind = "list" /\ raw[1].children.list # <<>>
    /\ Len(nodes) = 1
    /\ nodes[1].type = T_group
    /\ Len(nodes[1].children) = 1

\* the record holds a non-empty list under one of the accepted field names
HoldsChildren(item) ==
    \E k \in {"items", "children", "contents", "nodes"} :
       item[k].kind = "list" /\ item[k].list # <<>>

\* C11: a raw record without a recognized discriminator becomes an implicit
\* group whenever it holds a non-empty child list under at least one of
\* items, children, contents, nodes, whatever its other child-list fields
\* hold.
C11_ImplicitGroup ==
    pc = "toc_done" =>
       \A i \in DOMAIN raw :
          (Unrecognized(raw[i]) /\ HoldsChildren(raw[i])) =>
             \E node \in Range(nodes) : node.raw = raw[i] /\ node.type = T_group

\* the lines of the text that is loaded
TextLines == MakeLines(SplitLines(yaml.text, <<>>))

\* the text of a sequence-item line after its dash
AfterDash(line) == LStrip(Tail(Strip(line.text)))

\* t has the form `key: value`, the value a scalar that is no `|` and no `>`
IsScalarEntry(t) ==
    /\ ~IsListItemText(t)
    /\ HasChar(t, ":")
    /\ BeforeColon(t) # <<>>
    /\ AfterColon(t) \notin {<<>>, <<"|">>, <<">">>}

\* a line `- key: value` at indentation i
IsItemEntry(line, i) ==
    /\ line.indent = i
    /\ StartsWith(Strip(line.text), <<"-", " ">>)
    /\ IsScalarEntry(AfterDash(line))

\* a line `key: value` at indentation i + 2
IsSiblingEntry(line, i) == line.indent = i + 2 /\ IsScalarEntry(Strip(line.text))

\* a line `key:` at indentation 0
IsKeyOnly(line) ==
    /\ line.indent = 0
    /\ ~IsListItemText(Strip(line.text))
    /\ HasChar(line.text, ":")
    /\ BeforeColon(line.text) # <<>>
    /\ AfterColon(line.text) = <<>>

\* the lines of the sequence: all of them when the sequence is the document
\* (i = 0), those after the first when it is the value of a `key:` line
SequenceLines(i) == IF i = 0 THEN TextLines ELSE Tail(TextLines)

EntryOfLine(line, i) ==
    IF line.indent = i
    THEN VEnt(BeforeColon(AfterDash(line)), _parse_scalar(AfterColon(AfterDash(line))))
    ELSE VEnt(BeforeColon(Strip(line.text)), _parse_scalar(AfterColon(Strip(line.text))))

\* the entries of each item, in line order: a line at indentation i starts
\* an item, a line at i + 2 goes to the item before it
RECURSIVE ItemsOf(_, _)
ItemsOf(ls, i) ==
    IF ls = <<>> THEN <<>>
    ELSE IF ls[Len(ls)].indent = i
    THEN Append(ItemsOf(SubSeq(ls, 1, Len(ls) - 1), i), <<EntryOfLine(ls[Len(ls)], i)>>)
    ELSE [ItemsOf(SubSeq(ls, 1, Len(ls) - 1), i)
             EXCEPT ![Len(ItemsOf(SubSeq(ls, 1, Len(ls) - 1), i))] =
                       Append(@, EntryOfLine(ls[Len(ls)], i))]

\* the text is a sequence of `- key: value` items at indentation i, each
\* followed by any number of `key: value` lines at i + 2 with other keys
InItemForm(i) ==
    /\ TextLines # <<>>
    /\ i = 2 => IsKeyOnly(TextLines[1])
    /\ SequenceLines(i) # <<>>
    /\ IsItemEntry(SequenceLines(i)[1], i)
    /\ \A n \in DOMAIN SequenceLines(i) :
          IsItemEntry(SequenceLines(i)[n], i) \/ IsSiblingEntry(SequenceLines(i)[n], i)
    /\ \A item \in Range(ItemsOf(SequenceLines(i), i)) :
          NoDuplicates([n \in DOMAIN item |-> item[n].s])

ItemsValue(i) ==
    VList([p \in DOMAIN ItemsOf(SequenceLines(i), i) |->
              VMap(ItemsOf(SequenceLines(i), i)[p])])

ItemFormValue(i) ==
    IF i = 0 THEN ItemsValue(i)
    ELSE VMap(<<VEnt(BeforeColon(TextLines[1].text), ItemsValue(i))>>)

\* C12: a sequence item `- key: value` at indentation i yields one mapping
\* that holds key first and then, in line order, every following entry at
\* indentation i + 2, up to the first line of lesser indentation or the next
\* `- ` item, which starts a new element of the same sequence.
C12_ItemMapping ==
    \A i \in {0, 2} :
       (InItemForm(i) /\ yaml.phase # "text") =>
          /\ yaml.phase # "rejected"
          /\ yaml.doc = ItemFormValue(i)

\* an item of two entries followed by a second item
C12_Witness ==
    /\ yaml.phase = "loaded"
    /\ InItemForm(0)
    /\ Len(TextLines) = 3
    /\ Len(yaml.doc.kids) = 2
    /\ Keys(yaml.doc.kids[1]) = <<<<"k">>, <<"m">>>>
    /\ Keys(yaml.doc.kids[2]) = <<<<"k">>>>

\* the same at indentation 2, under a `key:` line
C12_Nested ==
    /\ yaml.phase = "loaded"
    /\ InItemForm(2)
    /\ Len(TextLines) = 3
    /\ Keys(Get(yaml.doc, <<"j">>).kids[1]) = <<<<"k">>, <<"m">>>>

\* a line `- key:` at indentation i
IsItemKeyOnly(line, i) ==
    /\ line.indent = i
    /\ StartsWith(Strip(line.text), <<"-", " ">>)
    /\ ~IsListItemText(AfterDash(line))
    /\ HasChar(AfterDash(line), ":")
    /\ BeforeColon(AfterDash(line)) # <<>>
    /\ AfterColon(AfterDash(line)) = <<>>

\* the text is one `- key:` item at indentation 0 followed by `key: value`
\* lines at indentation 2 with other keys
InKeyOnlyItemForm ==
    /\ Len(TextLines) >= 2
    /\ IsItemKeyOnly(TextLines[1], 0)
    /\ \A n \in 2..Len(TextLines) : IsSiblingEntry(TextLines[n], 0)
    /\ NoDuplicates(<<BeforeColon(AfterDash(TextLines[1]))>>
                       \o [n \in 1..(Len(TextLines) - 1) |->
                              BeforeColon(Strip(TextLines[n + 1].text))])

\* C13: a sequence item `- key:` at indentation i opens an inline mapping
\* whose first key is key, and the following lines at indentation i + 2 are
\* sibling keys of that same mapping, not the nested value of key.
C13_KeyOnlyItemSiblings ==
    (InKeyOnlyItemForm /\ yaml.phase # "text") =>
       /\ yaml.phase # "rejected"
       /\ IsList(yaml.doc) /\ Len(yaml.doc.kids) = 1
       /\ IsMap(yaml.doc.kids[1])
       /\ Keys(yaml.doc.kids[1])
             = <<BeforeColon(AfterDash(TextLines[1]))>>
                  \o [n \in 1..(Len(TextLines) - 1) |->
                         BeforeColon(Strip(TextLines[n + 1].text))]
       /\ \A n \in 2..Len(TextLines) :
             Get(yaml.doc.kids[1], BeforeColon(Strip(TextLines[n].text)))
                = _parse_scalar(AfterColon(Strip(TextLines[n].text)))

IsBlockMarker(value) == value \in {<<"|">>, <<">">>}

\* a `key: value` line, or a continuation key of a sequence-item mapping,
\* whose value is `|` or `>`
IsPlainBlockScalarEntry(line) ==
    /\ ~IsBlankOrComment(line)
    /\ ~IsListItemText(Strip(line.text))
    /\ HasChar(line.text, ":")
    /\ IsBlockMarker(AfterColon(Strip(line.text)))

\* a `- key: value` line whose value is `|` or `>`
IsItemBlockScalarEntry(line) ==
    /\ StartsWith(Strip(line.text), <<"-", " ">>)
    /\ HasChar(AfterDash(line), ":")
    /\ IsBlockMarker(AfterColon(AfterDash(line)))

\* C14: load fails with YamlError for every input in which a mapping entry
\* has a value of exactly `|` or `>`: on a plain `key: value` line, on a
\* continuation key of a sequence-item mapping, or as the first key of a
\* `- key: value` line.
C14_BlockScalarRejected ==
    (/\ yaml.phase # "text"
     /\ \E line \in Range(TextLines) :
           IsPlainBlockScalarEntry(line) \/ IsItemBlockScalarEntry(line))
    => yaml.phase = "rejected"

\* a sequence-item line: `-` or `- ...`
IsItemLine(line) == ~IsBlankOrComment(line) /\ IsListItemText(Strip(line.text))

\* a mapping-entry line: `key:` or `key: value`
IsEntryLine(line) ==
    /\ ~IsBlankOrComment(line)
    /\ ~IsListItemText(Strip(line.text))
    /\ HasChar(line.text, ":")

\* no line between p and q leaves the block at indentation d
SameBlock(p, q, d) ==
    \A n \in (p + 1)..(q - 1) :
       IsBlankOrComment(TextLines[n]) \/ TextLines[n].indent >= d

\* lines p and q stand at one indentation in one block, one of them a
\* sequence item and the other a mapping entry
MixedLines(p, q) ==
    /\ p < q
    /\ TextLines[p].indent = TextLines[q].indent
    /\ SameBlock(p, q, TextLines[p].indent)
    /\ \/ IsItemLine(TextLines[p]) /\ IsEntryLine(TextLines[q])
       \/ IsEntryLine(TextLines[p]) /\ IsItemLine(TextLines[q])

\* the entry of the `- key: value` line p stands at the indentation of the
\* sequence item q that follows it in the item's block
MixedInline(p, q) ==
    /\ p < q
    /\ IsItemEntry(TextLines[p], TextLines[p].indent)
    /\ TextLines[q].indent = TextLines[p].indent + indent_size
    /\ SameBlock(p, q, TextLines[q].indent)
    /\ IsItemLine(TextLines[q])

HasMixedBlock ==
    \E p \in DOMAIN TextLines : \E q \in DOMAIN TextLines :
       MixedLines(p, q) \/ MixedInline(p, q)

\* C15: load fails whenever a sequence item and a mapping entry occur at the
\* same indentation level in the same block, in either order; such an input
\* is never accepted.
C15_MixedBlockRejected ==
    (yaml.phase # "text" /\ HasMixedBlock) => yaml.phase = "rejected"

\* unindented lines without `|` or `>`, an entry before an item: nothing but
\* the mixing makes the load fail
C15_Witness ==
    /\ yaml.phase = "rejected"
    /\ \E p \in DOMAIN TextLines : \E q \in DOMAIN TextLines :
          MixedLines(p, q) /\ IsEntryLine(TextLines[p])
    /\ \A line \in Range(TextLines) :
          /\ line.indent = 0
          /\ IsScalarEntry(Strip(line.text)) \/ IsScalarEntry(AfterDash(line))
             \/ Strip(line.text) = <<"-", " ", "x">>

\* the same with the item before the entry
C15_ItemFirst ==
    /\ yaml.phase = "rejected"
    /\ Len(TextLines) = 2
    /\ MixedLines(1, 2) /\ IsItemLine(TextLines[1])
    /\ TextLines[1].text = <<"-", " ", "x">>
    /\ IsScalarEntry(TextLines[2].text)

\* a line that opens a block: `key:`, `-` or `- key:`
OpensNestedBlock(line) ==
    \/ Strip(line.text) = <<"-">>
    \/ ~IsListItemText(Strip(line.text)) /\ EndsWith(Strip(line.text), <<":">>)
    \/ StartsWith(Strip(line.text), <<"-", " ">>) /\ EndsWith(AfterDash(line), <<":">>)

\* a line `- key: value`: the lines after it at two more spaces are further
\* entries of the item's mapping
OpensItemMapping(line) ==
    /\ StartsWith(Strip(line.text), <<"-", " ">>)
    /\ HasChar(AfterDash(line), ":")
    /\ AfterColon(AfterDash(line)) # <<>>

\* line p is the last line before q that is neither blank nor a comment
DirectlyBefore(p, q) ==
    /\ p < q
    /\ ~IsBlankOrComment(TextLines[p])
    /\ \A n \in (p + 1)..(q - 1) : IsBlankOrComment(TextLines[n])

IsFirstLine(q) == \A n \in 1..(q - 1) : IsBlankOrComment(TextLines[n])

\* line q is indented and is the first line, or is deeper than the line
\* before it without that line opening a block two spaces less deep
DeeperThanExpected(q) ==
    /\ ~IsBlankOrComment(TextLines[q])
    /\ IF IsFirstLine(q) THEN TextLines[q].indent > 0
       ELSE \E p \in DOMAIN TextLines :
               /\ DirectlyBefore(p, q)
               /\ TextLines[q].indent > TextLines[p].indent
               /\ ~(/\ OpensNestedBlock(TextLines[p])
                    /\ TextLines[q].indent = TextLines[p].indent + indent_size)

\* the same, a `- key: value` line counted with the lines that open a block
DeeperThanAllowed(q) ==
    /\ ~IsBlankOrComment(TextLines[q])
    /\ IF IsFirstLine(q) THEN TextLines[q].indent > 0
       ELSE \E p \in DOMAIN TextLines :
               /\ DirectlyBefore(p, q)
               /\ TextLines[q].indent > TextLines[p].indent
               /\ ~(/\ OpensNestedBlock(TextLines[p]) \/ OpensItemMapping(TextLines[p])
                    /\ TextLines[q].indent = TextLines[p].indent + indent_size)

C16_FourSpaces ==
    /\ yaml.phase = "rejected"
    /\ Len(TextLines) = 2
    /\ IsKeyOnly(TextLines[1])
    /\ TextLines[2].indent = 2 * indent_size /\ IsScalarEntry(Strip(TextLines[2].text))
    /\ DeeperThanAllowed(2)

\* an indented first line is rejected
C16_IndentedFirstLine ==
    /\ yaml.phase = "rejected"
    /\ Len(TextLines) = 1
    /\ IsScalarEntry(Strip(TextLines[1].text))
    /\ DeeperThanAllowed(1)

\* C17: the slug registry is empty at the start of every call of migrate(),
\* so that nothing allocated in one run influences the slugs of another.
C17_RegistryEmptyAtStart == pc = "ready" => slug_registry = EmptyRegistry

Call(op, arg) == [op |-> op, arg |-> arg]

\* the get_markdown calls and slug allocations a depth-first walk of the
\* nodes in sibling order makes: an article is fetched and, when its body is
\* returned, given a slug; a group is given a slug after its children, when
\* one of them yields an entry
RECURSIVE ExpectedCalls(_)
ExpectedCalls(ns) ==
    IF ns = <<>> THEN <<>>
    ELSE (IF Head(ns).type = T_article
          THEN <<Call("get_markdown", Head(ns).title)>>
               \o (IF BodyReturned(Head(ns))
                   THEN <<Call("alloc", SlugSeed(Head(ns)))>> ELSE <<>>)
          ELSE ExpectedCalls(Head(ns).children)
               \o (IF Yields(Head(ns))
                   THEN <<Call("alloc", SlugSeed(Head(ns)))>> ELSE <<>>))
         \o ExpectedCalls(Tail(ns))

IsCall(e) == e.op \in {"get_markdown", "alloc"}

\* the get_markdown calls and slug allocations of the run so far
CallsMade ==
    [i \in DOMAIN SelectSeq(log, IsCall) |->
        Call(SelectSeq(log, IsCall)[i].op, SelectSeq(log, IsCall)[i].arg)]

IsPrefix(a, b) == Len(a) <= Len(b) /\ a = SubSeq(b, 1, Len(a))

\* the write at position i of the log is the page of the article fetched two
\* positions before it, under the slug allocated in between
WriteFollowsFetch(i) ==
    /\ i > 2
    /\ log[i - 2].op = "get_markdown" /\ log[i - 2].found
    /\ log[i - 1].op = "alloc"
    /\ log[i].arg = PathStr(OutputPath(config, log[i - 1].res))
    /\ log[i].res = _wrap_markdown(log[i - 2].arg, log[i - 1].res, log[i - 2].res)

\* C18: get_markdown is called exactly once per article node, in
\* depth-first, sibling-order traversal; the page file of an article is
\* written exactly once, after that article's get_markdown call and before
\* the get_markdown call of the next article; a group's slug is allocated
\* only after all of its descendants have been converted. (A run that an
\* error ends stops within this order.)
C18_TraversalOrder ==
    /\ pc = "convert" => CallsMade = ExpectedCalls(SubSeq(nodes, 1, cursor - 1))
    /\ pc \in {"merge", "emit", "done"} => CallsMade = ExpectedCalls(nodes)
    /\ pc = "failed" => IsPrefix(CallsMade, ExpectedCalls(nodes))
    /\ \A i \in DOMAIN log : log[i].op = "write_page" => WriteFollowsFetch(i)
    /\ \A i \in DOMAIN log : \A j \in DOMAIN log :
          (log[i].op = "write_page" /\ log[j].op = "write_page" /\ i # j)
          => log[i].arg # log[j].arg
    /\ ~config.dry_run =>
          \A j \in DOMAIN log :
             (log[j].op = "get_markdown" /\ log[j].found) =>
                j + 2 <= Len(log) /\ log[j + 2].op = "write_page"

\* a finished run over a group of two articles whose bodies are returned:
\* two pages are written and the group's slug is allocated last
C18_Witness ==
    /\ pc = "done"
    /\ ~config.dry_run
    /\ Len(nodes) = 1
    /\ nodes[1].type = T_group
    /\ Len(nodes[1].children) = 2
    /\ \A child \in Range(nodes[1].children) :
          child.type = T_article /\ BodyReturned(child)
    /\ Count(log, LAMBDA e : e.op = "write_page") = 2
    /\ Count(log, LAMBDA e : e.op = "alloc") = 3

ErrorNames == {"ValueError", "OSError", "YamlError", "AttributeError"}

ConfigWrites(l) == Count(l, LAMBDA e : e.op = "write_docs")

\* the configuration file is written once at most, and nothing follows the
\* write; a run that an error ends has not written it, and the error is the
\* last thing that happened
C19_WrittenLast ==
    /\ \A i \in DOMAIN log :
          log[i].op = "write_docs" =>
             i = Len(log) /\ pc = "done" /\ ~config.dry_run
    /\ pc = "failed" =>
          /\ log[Len(log)].op \in ErrorNames
          /\ Count(log, LAMBDA e : e.op \in ErrorNames) = 1
          /\ ConfigWrites(log) = 0
    /\ \A i \in DOMAIN log :
          log[i].op = "OSError" =>
             i > 1 /\ log[i - 1].op = "get_markdown" /\ pc = "failed"

\* the configuration file changes only in the step that ends the run, which
\* logs the write; after an error no step is taken
C19_Step ==
    /\ (fs'.docs # fs.docs \/ ConfigWrites(log') # ConfigWrites(log)) =>
          /\ pc = "emit" /\ pc' = "done"
          /\ fs'.docs.exists
          /\ log' = Append(log, Ev("write_docs", PathStr(config.docs_yml_path),
                                   fs'.docs.text, TRUE))
    /\ pc # "failed"

\* C19: the configuration file is written at most once, as the last effect
\* of the run, after all get_markdown calls and page writes; when
\* get_markdown raises or the existing configuration fails to parse,
\* migrate() ends with that error, nothing is tried again, and the
\* configuration file is left as it was.
C19_ConfigWrittenLast == [](C19_WrittenLast) /\ [][C19_Step]_vars

\* get_markdown raises for the second article after the page of the first
\* has been written; a configuration file exists
C19_Witness ==
    /\ pc = "failed"
    /\ log[Len(log)].op = "OSError"
    /\ Count(log, LAMBDA e : e.op = "write_page") = 1
    /\ Count(log, LAMBDA e : e.op = "get_markdown") = 2
    /\ fs.docs = File(D_WithNavigation)

\* the existing configuration fails to parse after a page has been written
C19_ParseFailure ==
    /\ pc = "failed"
    /\ log[Len(log)].op = "YamlError"
    /\ Count(log, LAMBDA e : e.op = "write_page") = 1
    /\ fs.docs = File(D_Malformed)

\* the configuration file is written after two pages
C19_Written ==
    /\ pc = "done"
    /\ log[Len(log)].op = "write_docs"
    /\ Count(log, LAMBDA e : e.op = "write_page") = 2
    /\ fs.docs.text = log[Len(log)].res

\* The run of migrate() over the same tree, content source and existing
\* configuration file with the dry-run flag set to d, computed with the
\* operators the steps of the run use. (The configuration file is as the run
\* found it in every state but the last of a run that writes it.)
TwinStart == [reg |-> EmptyRegistry, pages |-> <<>>, log |-> <<>>, err |-> ""]

TwinConverted(d) ==
    ConvertChildren(TocParse(raw), TwinStart, [config EXCEPT !.dry_run = d], <<>>)

TwinLoaded ==
    IF fs.docs.exists THEN load(fs.docs.text) ELSE Parsed(VMap(<<>>), 0)

\* the exception that ends the run, "" when it completes
TwinError(d) ==
    IF TwinConverted(d).st.err # "" THEN TwinConverted(d).st.err
    ELSE IF TwinLoaded.err THEN "YamlError"
    ELSE IF ~IsMap(TwinLoaded.val) THEN "AttributeError"
    ELSE ""

\* the document the run prints or writes
TwinText(d) ==
    dump(MapSet(TwinLoaded.val, K_navigation,
                VList(MergedNavigation(ExistingNavigation(TwinLoaded.val, config),
                                       TwinConverted(d).contents))))

\* the document this run has printed or written
Emitted == log[Len(log)].res

\* C20: dry-run is a faithful preview: for the same tree, content source,
\* existing configuration and merge mode, the document a dry-run prints is
\* the text a run that writes puts in the configuration file, and the flag
\* changes only whether files are written: both runs end with the same
\* error or with the same document, slugs and registry.
C20_FaithfulPreview ==
    /\ pc = "emit" =>
          /\ TwinError(TRUE) = "" /\ TwinError(FALSE) = ""
          /\ dump(docs_config) = TwinText(TRUE)
          /\ dump(docs_config) = TwinText(FALSE)
          /\ slug_registry = TwinConverted(~config.dry_run).st.reg
    /\ pc = "done" => Emitted = dump(docs_config)
    /\ (pc = "done" /\ config.dry_run) =>
          /\ log[Len(log)].op = "print"
          /\ Emitted = TwinText(FALSE)
          /\ printed = TwinText(FALSE) \o <<"\n">>
    /\ (pc = "done" /\ ~config.dry_run) =>
          /\ log[Len(log)].op = "write_docs"
          /\ fs.docs = File(Emitted)
    /\ pc = "failed" =>
          /\ TwinError(TRUE) = log[Len(log)].op
          /\ TwinError(FALSE) = log[Len(log)].op

\* a dry-run that appends two pages of one title to an existing navigation
C20_Witness ==
    /\ pc = "done"
    /\ config.dry_run
    /\ ~config.overwrite_navigation
    /\ fs.docs = File(D_WithNavigation)
    /\ Count(log, LAMBDA e : e.op = "page") = 2
    /\ \E i \in DOMAIN log : log[i].op = "alloc" /\ log[i].res = S_faq_2
    /\ Emitted = TwinText(FALSE)

====
